---- MODULE Spec2Model ----
(***************************************************************************)
(* Model of scripts/process-pdf.py: text cleaning, the sliding-window      *)
(* chunker, the batch writer and the main run that ties them together.     *)
(* Strings are sequences of one-character strings; the output directory is *)
(* a function from file names (character sequences) to file contents.      *)
(***************************************************************************)
EXTENDS Integers, Sequences, FiniteSets, TLC

VARIABLES
    caller,          \* who called the function under way: "main" or "direct"
    pc,              \* position of the run
    source_dir,      \* the PDFs SOURCE_DIR.glob("*.pdf") yields, in glob order
    pdf_files,       \* main: pdf_files
    fidx,            \* main: position of the for loop over pdf_files (1-based)
    all_chunks,      \* main: all_chunks
    all_pages,       \* main: all_pages
    counts,          \* history: len(chunks) of every PDF processed so far
    pages,           \* create_chunks: pages
    chunk_size,      \* create_chunks: chunk_size
    overlap,         \* create_chunks: overlap
    chunks,          \* create_chunks: chunks
    chunk_id,        \* create_chunks: chunk_id
    pidx,            \* create_chunks: position of the for loop over pages
    text,            \* create_chunks: text (cleaned text of the current page)
    start,           \* create_chunks: start
    windows,         \* history: the windows taken on the current page
    sc_chunks,       \* save_chunks: chunks
    chunks_per_file, \* save_chunks: chunks_per_file
    old_files,       \* save_chunks: matches of the glob still to unlink
    num_files,       \* save_chunks: num_files
    i,               \* save_chunks: i
    disk,            \* the output directory: file name -> content
    disk0,           \* history: the output directory when the run began
    raw,             \* clean_text: argument
    cleaned,         \* clean_text: result
    error            \* the uncaught exception that ended the run, or "none"

vars == <<caller, pc, source_dir, pdf_files, fidx, all_chunks, all_pages, counts,
          pages, chunk_size, overlap, chunks, chunk_id, pidx, text, start, windows,
          sc_chunks, chunks_per_file, old_files, num_files, i, disk, disk0,
          raw, cleaned, error>>

mainVars == <<source_dir, pdf_files, fidx, all_chunks, all_pages, counts>>
ccVars == <<pages, chunk_size, overlap, chunks, chunk_id, pidx, text, start, windows>>
scVars == <<sc_chunks, chunks_per_file, old_files, num_files, i>>
cleanVars == <<raw, cleaned>>

\* ---------------------------------------------------------------- bounds
MaxRaw == 5
MaxLen == 5
MaxLong == 8
MaxShort == 2
MaxS == 7
MaxIter == 10
MaxN == 7
MaxB == 3
MaxPdfs == 2

\* ------------------------------------------------------- program constants
CHUNK_SIZE == 500
CHUNK_OVERLAP == 100
CHUNKS_PER_FILE == 100

\* ------------------------------------------------------------ characters
\* "\f" (form feed, \x0c) stands for the characters line 80 deletes.
Control == {"\f"}
\* what \s and str.strip() take for whitespace
Whitespace == {" ", "\t", "\n", "\r", "\f"}

SetMax(S) == CHOOSE x \in S : \A y \in S : y <= x
SetMin(S) == CHOOSE x \in S : \A y \in S : x <= y

\* str.strip()
Strip(s) ==
    LET idx == {k \in 1..Len(s) : s[k] \notin Whitespace}
    IN IF idx = {} THEN <<>> ELSE SubSeq(s, SetMin(idx), SetMax(idx))

\* s[a:b] with Python's treatment of negative and out-of-range indices
SliceIndex(n, x) == IF x < 0 THEN (IF n + x < 0 THEN 0 ELSE n + x)
                    ELSE (IF x > n THEN n ELSE x)
Slice(s, a, b) ==
    LET lo == SliceIndex(Len(s), a)
        hi == SliceIndex(Len(s), b)
    IN IF lo < hi THEN SubSeq(s, lo + 1, hi) ELSE <<>>

\* str.rfind(ch): 0-based index of the last occurrence, -1 when absent
rfind(s, ch) ==
    LET idx == {k \in 1..Len(s) : s[k] = ch}
    IN IF idx = {} THEN -1 ELSE SetMax(idx) - 1

\* ------------------------------------------------------------ clean_text
\* re.sub(r'[\x00-\x08\x0b\x0c\x0e-\x1f\x7f-\x9f]', '', text)
RemoveControl(s) ==
    LET keep(c) == c \notin Control IN SelectSeq(s, keep)

\* re.sub(r'\s+', ' ', text): every maximal run of whitespace, leftmost first,
\* becomes one space
RECURSIVE CollapseSpace(_)
CollapseSpace(s) ==
    LET ws == {k \in 1..Len(s) : s[k] \in Whitespace}
    IN IF ws = {} THEN s
       ELSE LET first == SetMin(ws)
                stops == {k \in first..Len(s) : s[k] \notin Whitespace}
                last == IF stops = {} THEN Len(s) ELSE SetMin(stops) - 1
            IN SubSeq(s, 1, first - 1) \o <<" ">> \o CollapseSpace(SubSeq(s, last + 1, Len(s)))

\* the end of the match of \n\s*\n that begins at position p (\s* is greedy), 0 if none
BlankMatchEnd(s, p) ==
    LET ends == {j \in (p + 1)..Len(s) :
                    /\ s[j] = "\n"
                    /\ \A k \in (p + 1)..(j - 1) : s[k] \in Whitespace}
    IN IF s[p] = "\n" /\ ends # {} THEN SetMax(ends) ELSE 0

\* re.sub(r'\n\s*\n', '\n\n', text): every match, leftmost first, becomes \n\n
RECURSIVE CollapseBlankLines(_)
CollapseBlankLines(s) ==
    LET begins == {p \in 1..Len(s) : BlankMatchEnd(s, p) # 0}
    IN IF begins = {} THEN s
       ELSE LET first == SetMin(begins)
            IN SubSeq(s, 1, first - 1) \o <<"\n", "\n">>
               \o CollapseBlankLines(SubSeq(s, BlankMatchEnd(s, first) + 1, Len(s)))

clean_text(t) == Strip(CollapseBlankLines(CollapseSpace(RemoveControl(t))))

\* ---------------------------------------------------------------- inputs
RECURSIVE Strings(_, _)
Strings(A, n) ==
    IF n = 0 THEN {<<>>}
    ELSE LET shorter == Strings(A, n - 1)
         IN shorter \cup {Append(s, c) : s \in {x \in shorter : Len(x) = n - 1}, c \in A}

RawAlphabet == {"a", ".", " ", "\n", "\f"}
PageAlphabet == {"a", ".", " "}
LongAlphabet == {"a", "."}

\* ---------------------------------------------------------- create_chunks
\* variant of WindowEnd: the window is one character too long
WindowEnd_Long(st, S) == st + S + 1

\* line 103: end = start + chunk_size
WindowEnd(st, S) == st + S

\* lines 108-110: break_point = max(last_period, last_newline)
BreakPoint(ct) ==
    LET last_period == rfind(ct, ".")
        last_newline == rfind(ct, "\n")
    IN IF last_period > last_newline THEN last_period ELSE last_newline

\* lines 107 and 112: end < len(text) and break_point > chunk_size * 0.5
Truncates(t, st, S) ==
    /\ WindowEnd(st, S) < Len(t)
    /\ 2 * BreakPoint(Slice(t, st, WindowEnd(st, S))) > S

\* lines 104-113: chunk_text after the optional truncation
ChunkText(t, st, S) ==
    LET ct == Slice(t, st, WindowEnd(st, S))
    IN IF Truncates(t, st, S) THEN Slice(ct, 0, BreakPoint(ct) + 1) ELSE ct

\* lines 103-114: end after the optional truncation
EffectiveEnd(t, st, S) ==
    IF Truncates(t, st, S)
    THEN st + BreakPoint(Slice(t, st, WindowEnd(st, S))) + 1
    ELSE WindowEnd(st, S)

\* variant of NextStart: the overlap is not subtracted
NextStart_NoOverlap(t, end, O) == IF end < Len(t) THEN end ELSE Len(t)

\* line 125: start = end - overlap if end < len(text) else len(text)
NextStart(t, end, O) == IF end < Len(t) THEN end - O ELSE Len(t)

\* lines 116-122: the chunk is appended when its stripped text is non-empty
Emit(cs, id, page_num, ct) ==
    IF Strip(ct) # <<>>
    THEN Append(cs, [id |-> id, page |-> page_num, text |-> Strip(ct)])
    ELSE cs

\* lines 93-98, page with empty cleaned text: continue
CcSkipPage ==
    /\ pc = "cc_page"
    /\ pidx <= Len(pages)
    /\ clean_text(pages[pidx].text) = <<>>
    /\ pidx' = pidx + 1
    /\ text' = <<>>
    /\ UNCHANGED <<caller, pc, pages, chunk_size, overlap, chunks, chunk_id, start,
                   windows, error, disk, disk0>>
    /\ UNCHANGED <<mainVars, scVars, cleanVars>>

\* lines 93-101, page with text: start = 0
CcEnterPage ==
    /\ pc = "cc_page"
    /\ pidx <= Len(pages)
    /\ clean_text(pages[pidx].text) # <<>>
    /\ text' = clean_text(pages[pidx].text)
    /\ start' = 0
    /\ windows' = <<>>
    /\ pc' = "cc_loop"
    /\ UNCHANGED <<caller, pages, chunk_size, overlap, chunks, chunk_id, pidx,
                   error, disk, disk0>>
    /\ UNCHANGED <<mainVars, scVars, cleanVars>>

\* lines 102-125: one iteration of the while loop
CcIter ==
    /\ pc = "cc_loop"
    /\ start < Len(text)
    /\ Len(windows) < MaxIter
    /\ LET ct == ChunkText(text, start, chunk_size)
           end == EffectiveEnd(text, start, chunk_size)
       IN /\ chunks' = Emit(chunks, chunk_id, pages[pidx].page, ct)
          /\ chunk_id' = IF Strip(ct) # <<>> THEN chunk_id + 1 ELSE chunk_id
          /\ start' = NextStart(text, end, overlap)
          /\ windows' = Append(windows,
                               [start |-> start, end |-> end,
                                lo |-> SliceIndex(Len(text), start), len |-> Len(ct)])
    /\ UNCHANGED <<caller, pc, pages, chunk_size, overlap, pidx, text, error, disk, disk0>>
    /\ UNCHANGED <<mainVars, scVars, cleanVars>>

\* line 102 false: the while loop ends, the for loop goes to the next page
CcPageDone ==
    /\ pc = "cc_loop"
    /\ ~(start < Len(text))
    /\ pidx' = pidx + 1
    /\ pc' = "cc_page"
    /\ UNCHANGED <<caller, pages, chunk_size, overlap, chunks, chunk_id, text, start,
                   windows, error, disk, disk0>>
    /\ UNCHANGED <<mainVars, scVars, cleanVars>>

\* line 127: return chunks
CcReturn ==
    /\ pc = "cc_page"
    /\ pidx > Len(pages)
    /\ pc' = IF caller = "main" THEN "main_renumber" ELSE "done"
    /\ UNCHANGED <<caller, ccVars, error, disk, disk0>>
    /\ UNCHANGED <<mainVars, scVars, cleanVars>>

NextChunks == CcSkipPage \/ CcEnterPage \/ CcIter \/ CcPageDone \/ CcReturn

\* ------------------------------------------------------------ file names
Digits == <<"0", "1", "2", "3", "4", "5", "6", "7", "8", "9">>

\* the decimal digits f"{i}" formats i with
RECURSIVE Str(_)
Str(n) == IF n < 10 THEN <<Digits[n + 1]>> ELSE Str(n \div 10) \o <<Digits[(n % 10) + 1]>>

BatchPrefix == <<"c", "h", "u", "n", "k", "s", "_">>
JsonSuffix == <<".", "j", "s", "o", "n">>

\* line 147: f"chunks_{i}.json"
BatchName(k) == BatchPrefix \o Str(k) \o JsonSuffix

\* line 168: "metadata.json"
MetadataName == <<"m", "e", "t", "a", "d", "a", "t", "a">> \o JsonSuffix

\* line 136: the names glob("chunks_*.json") matches
GlobMatch(name) ==
    /\ Len(name) >= Len(BatchPrefix) + Len(JsonSuffix)
    /\ SubSeq(name, 1, Len(BatchPrefix)) = BatchPrefix
    /\ SubSeq(name, Len(name) - Len(JsonSuffix) + 1, Len(name)) = JsonSuffix

\* variant of Unlink: the old file is left in place
Unlink_Keep(d, name) == d

\* line 137: old_file.unlink()
Unlink(d, name) == [n \in (DOMAIN d) \ {name} |-> d[n]]

\* open(output_file, 'w') followed by a complete json.dump
WriteFile(d, name, content) ==
    [n \in (DOMAIN d) \cup {name} |-> IF n = name THEN content ELSE d[n]]

\* ----------------------------------------------------------- save_chunks
\* variant of NumFiles: the division rounds down
NumFiles_Floor(n, B) == n \div B

\* line 140: (len(chunks) + chunks_per_file - 1) // chunks_per_file
NumFiles(n, B) == (n + B - 1) \div B

\* lines 143-145: chunks[start_idx:end_idx]
Batch(cs, k, B) ==
    LET start_idx == k * B
        end_idx == IF (k + 1) * B < Len(cs) THEN (k + 1) * B ELSE Len(cs)
    IN Slice(cs, start_idx, end_idx)

\* line 133: output_dir.mkdir(parents=True, exist_ok=True)
ScMkdir ==
    /\ pc = "sc_mkdir"
    /\ pc' = "sc_glob"
    /\ UNCHANGED <<caller, scVars, error, disk, disk0>>
    /\ UNCHANGED <<mainVars, ccVars, cleanVars>>

\* line 133 raising OSError
ScMkdirFail ==
    /\ pc = "sc_mkdir"
    /\ pc' = "aborted"
    /\ error' = "mkdir"
    /\ UNCHANGED <<caller, scVars, disk, disk0>>
    /\ UNCHANGED <<mainVars, ccVars, cleanVars>>

\* line 136: the directory is scanned for the matches of the pattern
ScGlob ==
    /\ pc = "sc_glob"
    /\ old_files' = {n \in DOMAIN disk : GlobMatch(n)}
    /\ pc' = "sc_unlink"
    /\ UNCHANGED <<caller, sc_chunks, chunks_per_file, num_files, i, error, disk, disk0>>
    /\ UNCHANGED <<mainVars, ccVars, cleanVars>>

\* line 137: one old file is removed
ScUnlink ==
    /\ pc = "sc_unlink"
    /\ \E n \in old_files :
         /\ disk' = Unlink(disk, n)
         /\ old_files' = old_files \ {n}
    /\ UNCHANGED <<caller, pc, sc_chunks, chunks_per_file, num_files, i, error, disk0>>
    /\ UNCHANGED <<mainVars, ccVars, cleanVars>>

\* line 137 raising OSError
ScUnlinkFail ==
    /\ pc = "sc_unlink"
    /\ old_files # {}
    /\ pc' = "aborted"
    /\ error' = "unlink"
    /\ UNCHANGED <<caller, scVars, disk, disk0>>
    /\ UNCHANGED <<mainVars, ccVars, cleanVars>>

\* line 140: num_files, and the for loop of line 142 begins
ScCount ==
    /\ pc = "sc_unlink"
    /\ old_files = {}
    /\ num_files' = NumFiles(Len(sc_chunks), chunks_per_file)
    /\ i' = 0
    /\ pc' = "sc_write"
    /\ UNCHANGED <<caller, sc_chunks, chunks_per_file, old_files, error, disk, disk0>>
    /\ UNCHANGED <<mainVars, ccVars, cleanVars>>

\* lines 142-151: batch file i is written
ScWrite ==
    /\ pc = "sc_write"
    /\ i < num_files
    /\ disk' = WriteFile(disk, BatchName(i),
                         [run |-> "new", whole |-> TRUE,
                          data |-> Batch(sc_chunks, i, chunks_per_file)])
    /\ i' = i + 1
    /\ UNCHANGED <<caller, pc, sc_chunks, chunks_per_file, old_files, num_files, error, disk0>>
    /\ UNCHANGED <<mainVars, ccVars, cleanVars>>

\* variant of ScWriteFail: the exception is swallowed and the loop goes on
ScWriteFail_Swallow ==
    /\ pc = "sc_write"
    /\ i < num_files
    /\ disk' = disk
    /\ i' = i + 1
    /\ error' = "write"
    /\ UNCHANGED <<caller, pc, sc_chunks, chunks_per_file, old_files, num_files, disk0>>
    /\ UNCHANGED <<mainVars, ccVars, cleanVars>>

\* lines 148-149 raising: open() fails and leaves no file, or the dump fails
\* and leaves a truncated file
ScWriteFail ==
    /\ pc = "sc_write"
    /\ i < num_files
    /\ \/ disk' = disk
       \/ disk' = WriteFile(disk, BatchName(i), [run |-> "new", whole |-> FALSE, data |-> <<>>])
    /\ pc' = "aborted"
    /\ error' = "write"
    /\ UNCHANGED <<caller, scVars, disk0>>
    /\ UNCHANGED <<mainVars, ccVars, cleanVars>>

\* line 153: return num_files
ScReturn ==
    /\ pc = "sc_write"
    /\ ~(i < num_files)
    /\ pc' = IF caller = "main" THEN "main_meta" ELSE "done"
    /\ UNCHANGED <<caller, scVars, error, disk, disk0>>
    /\ UNCHANGED <<mainVars, ccVars, cleanVars>>

NextSave ==
    \/ ScMkdir \/ ScMkdirFail \/ ScGlob \/ ScUnlink \/ ScUnlinkFail
    \/ ScCount \/ ScWrite \/ ScWriteFail \/ ScReturn

\* ------------------------------------------------------------------ main
\* lines 44-57 / 60-74: one Page per physical page, numbered from 1, stripped
extract_text(pdf) == [k \in 1..Len(pdf.pages) |-> [page |-> k, text |-> Strip(pdf.pages[k])]]

\* variant of Renumber: the ids are not shifted
Renumber_NoShift(cs, acc, name) ==
    [k \in 1..Len(cs) |->
        [id |-> cs[k].id, page |-> cs[k].page, text |-> cs[k].text, source |-> name]]

\* lines 217-219: the ids are shifted by len(all_chunks), the source is tagged
Renumber(cs, acc, name) ==
    [k \in 1..Len(cs) |->
        [id |-> Len(acc) + cs[k].id, page |-> cs[k].page, text |-> cs[k].text,
         source |-> name]]

\* lines 158-166: the metadata record (processedAt is left out)
Metadata(cs, ps, names) ==
    [version |-> "4.0", source |-> names, totalChunks |-> Len(cs), totalPages |-> Len(ps),
     chunkSize |-> CHUNK_SIZE, chunkOverlap |-> CHUNK_OVERLAP]

\* line 228: the file names of pdf_files, in order
PdfNames(fs) == [k \in 1..Len(fs) |-> fs[k].name]

\* variant of MainGlob: the old batch files are removed before the extraction
MainGlob_Clean ==
    /\ pc = "main_glob"
    /\ source_dir # <<>>
    /\ pdf_files' = source_dir
    /\ all_chunks' = <<>>
    /\ all_pages' = <<>>
    /\ fidx' = 1
    /\ pc' = "main_extract"
    /\ disk' = [n \in {m \in DOMAIN disk : ~GlobMatch(m)} |-> disk[n]]
    /\ UNCHANGED <<caller, source_dir, counts, error, disk0>>
    /\ UNCHANGED <<ccVars, scVars, cleanVars>>

\* lines 181-197, a PDF was found
MainGlob ==
    /\ pc = "main_glob"
    /\ source_dir # <<>>
    /\ pdf_files' = source_dir
    /\ all_chunks' = <<>>
    /\ all_pages' = <<>>
    /\ fidx' = 1
    /\ pc' = "main_extract"
    /\ UNCHANGED <<caller, source_dir, counts, error, disk, disk0>>
    /\ UNCHANGED <<ccVars, scVars, cleanVars>>

\* lines 184-189: no PDF, sys.exit(1)
MainNoPdf ==
    /\ pc = "main_glob"
    /\ source_dir = <<>>
    /\ pdf_files' = source_dir
    /\ pc' = "exit1"
    /\ UNCHANGED <<caller, source_dir, fidx, all_chunks, all_pages, counts, error, disk, disk0>>
    /\ UNCHANGED <<ccVars, scVars, cleanVars>>

\* lines 199-214: the text of the next PDF is extracted and create_chunks is called
MainExtract ==
    /\ pc = "main_extract"
    /\ fidx <= Len(pdf_files)
    /\ pdf_files[fidx].ok
    /\ pages' = extract_text(pdf_files[fidx])
    /\ all_pages' = all_pages \o extract_text(pdf_files[fidx])
    /\ chunk_size' = CHUNK_SIZE
    /\ overlap' = CHUNK_OVERLAP
    /\ chunks' = <<>>
    /\ chunk_id' = 0
    /\ pidx' = 1
    /\ pc' = "cc_page"
    /\ UNCHANGED <<caller, source_dir, pdf_files, fidx, all_chunks, counts, text, start,
                   windows, error, disk, disk0>>
    /\ UNCHANGED <<scVars, cleanVars>>

\* lines 205-208 raising: the PDF cannot be opened or parsed
MainExtractFail ==
    /\ pc = "main_extract"
    /\ fidx <= Len(pdf_files)
    /\ ~pdf_files[fidx].ok
    /\ pc' = "aborted"
    /\ error' = "extract"
    /\ UNCHANGED <<caller, disk, disk0>>
    /\ UNCHANGED <<mainVars, ccVars, scVars, cleanVars>>

\* lines 216-222: the chunks of the PDF are renumbered, tagged and accumulated
MainRenumber ==
    /\ pc = "main_renumber"
    /\ all_chunks' = all_chunks \o Renumber(chunks, all_chunks, pdf_files[fidx].name)
    /\ counts' = Append(counts, Len(chunks))
    /\ fidx' = fidx + 1
    /\ pc' = "main_extract"
    /\ UNCHANGED <<caller, source_dir, pdf_files, all_pages, error, disk, disk0>>
    /\ UNCHANGED <<ccVars, scVars, cleanVars>>

\* lines 224-226: save_chunks(all_chunks, OUTPUT_DIR) is called
MainSave ==
    /\ pc = "main_extract"
    /\ fidx > Len(pdf_files)
    /\ sc_chunks' = all_chunks
    /\ chunks_per_file' = CHUNKS_PER_FILE
    /\ pc' = "sc_mkdir"
    /\ UNCHANGED <<caller, old_files, num_files, i, error, disk, disk0>>
    /\ UNCHANGED <<mainVars, ccVars, cleanVars>>

\* lines 228-229 and 168-170: metadata.json is written; the run completes
MainMeta ==
    /\ pc = "main_meta"
    /\ disk' = WriteFile(disk, MetadataName,
                         [run |-> "new", whole |-> TRUE,
                          data |-> Metadata(all_chunks, all_pages, PdfNames(pdf_files))])
    /\ pc' = "done"
    /\ UNCHANGED <<caller, error, disk0>>
    /\ UNCHANGED <<mainVars, ccVars, scVars, cleanVars>>

\* lines 169-170 raising: open() fails and leaves the old file, or the dump
\* fails and leaves a truncated file
MainMetaFail ==
    /\ pc = "main_meta"
    /\ \/ disk' = disk
       \/ disk' = WriteFile(disk, MetadataName, [run |-> "new", whole |-> FALSE, data |-> <<>>])
    /\ pc' = "aborted"
    /\ error' = "metadata"
    /\ UNCHANGED <<caller, disk0>>
    /\ UNCHANGED <<mainVars, ccVars, scVars, cleanVars>>

\* lines 77-85: clean_text(raw) is computed
CleanText ==
    /\ pc = "clean"
    /\ cleaned' = clean_text(raw)
    /\ pc' = "done"
    /\ UNCHANGED <<caller, raw, error, disk, disk0>>
    /\ UNCHANGED <<mainVars, ccVars, scVars>>

\* ------------------------------------------------------------ input sets
RECURSIVE Repeat(_, _)
Repeat(s, n) == IF n = 0 THEN <<>> ELSE s \o Repeat(s, n - 1)

\* a page longer than CHUNK_SIZE: sentences of eight characters
LongPage == Repeat(<<"a", "a", "a", "a", "a", "a", ".", " ">>, 80)

PdfA == [name |-> "a.pdf", ok |-> TRUE,
         pages |-> << <<"A", "b", ".">>, <<" ", "c", ".", " ">>, <<"d", "\n", "\n", "e">> >>]
PdfB == [name |-> "b.pdf", ok |-> TRUE,
         pages |-> << <<"x", "\f", "y">>, <<" ", "\n">>, <<"z", ".">> >>]
PdfBlank == [name |-> "blank.pdf", ok |-> TRUE, pages |-> << <<>>, <<" ", "\f">> >>]
PdfLong == [name |-> "long.pdf", ok |-> TRUE, pages |-> << LongPage >>]
PdfBig == [name |-> "big.pdf", ok |-> TRUE,
           pages |-> [k \in 1..(CHUNKS_PER_FILE + 1) |-> <<"a", ".">>]]
PdfBad == [name |-> "bad.pdf", ok |-> FALSE, pages |-> <<>>]

Pdfs == {PdfA, PdfB, PdfBlank, PdfLong, PdfBig, PdfBad}

\* the orders in which a directory can list up to n of its files
RECURSIVE Listings(_, _)
Listings(S, n) ==
    IF n = 0 THEN {<<>>}
    ELSE LET shorter == Listings(S, n - 1)
             longest == {y \in shorter : Len(y) = n - 1}
         IN shorter \cup
            UNION {{Append(s, x) : x \in S \ {s[k] : k \in 1..Len(s)}} : s \in longest}

OldFile == [run |-> "old", whole |-> TRUE, data |-> <<>>]
NotesName == <<"n", "o", "t", "e", "s", ".", "t", "x", "t">>
OldBatchName == BatchPrefix \o <<"o", "l", "d">> \o JsonSuffix
OldNames == {BatchName(0), BatchName(1), BatchName(2), OldBatchName, MetadataName, NotesName}
OldDir(names) == [n \in names |-> OldFile]

\* output directories an earlier run (or the user) can have left
MainDirs == {OldDir({}), OldDir({BatchName(0), BatchName(1), BatchName(2), MetadataName}),
             OldDir({BatchName(0), OldBatchName, NotesName})}

\* Sentence one. Sentence two. Sentence three.
ScenarioText ==
    <<"S", "e", "n", "t", "e", "n", "c", "e", " ", "o", "n", "e", ".", " ",
      "S", "e", "n", "t", "e", "n", "c", "e", " ", "t", "w", "o", ".", " ",
      "S", "e", "n", "t", "e", "n", "c", "e", " ", "t", "h", "r", "e", "e", ".">>

OnePage(t) == << [page |-> 1, text |-> t] >>
TwoPages(t, u) == << [page |-> 1, text |-> t], [page |-> 2, text |-> u] >>

\* a chunk sequence of length n as main accumulates it
MkChunks(n) == [k \in 1..n |-> [id |-> k - 1, page |-> 1, text |-> <<"a">>, source |-> "a.pdf"]]

\* ------------------------------------------------------- specifications
IdleMain ==
    /\ source_dir = <<>> /\ pdf_files = <<>> /\ fidx = 1
    /\ all_chunks = <<>> /\ all_pages = <<>> /\ counts = <<>>
IdleChunks ==
    /\ pages = <<>> /\ chunk_size = CHUNK_SIZE /\ overlap = CHUNK_OVERLAP
    /\ chunks = <<>> /\ chunk_id = 0 /\ pidx = 1 /\ text = <<>> /\ start = 0
    /\ windows = <<>>
IdleSave ==
    /\ sc_chunks = <<>> /\ chunks_per_file = CHUNKS_PER_FILE /\ old_files = {}
    /\ num_files = 0 /\ i = 0
IdleClean == raw = <<>> /\ cleaned = <<>>
IdleDisk == disk = OldDir({}) /\ disk0 = disk

\* python scripts/process-pdf.py
Init ==
    /\ caller = "main" /\ pc = "main_glob" /\ error = "none"
    /\ source_dir \in Listings(Pdfs, MaxPdfs)
    /\ pdf_files = <<>> /\ fidx = 1
    /\ all_chunks = <<>> /\ all_pages = <<>> /\ counts = <<>>
    /\ IdleChunks /\ IdleSave /\ IdleClean
    /\ disk \in MainDirs /\ disk0 = disk

Next ==
    \/ MainGlob \/ MainNoPdf \/ MainExtract \/ MainExtractFail \/ MainRenumber
    \/ MainSave \/ MainMeta \/ MainMetaFail
    \/ NextChunks \/ NextSave

Spec == Init /\ [][Next]_vars

\* create_chunks(pages, S, O) called on its own
InitChunks ==
    /\ caller = "direct" /\ pc = "cc_page" /\ error = "none"
    /\ IdleMain /\ IdleSave /\ IdleClean /\ IdleDisk
    /\ \/ /\ chunk_size \in 1..MaxS
          /\ overlap \in 0..(chunk_size - 1)
          /\ \E t \in Strings(PageAlphabet, MaxLen) \cup Strings(LongAlphabet, MaxLong) :
                pages = OnePage(t)
       \/ /\ chunk_size \in 1..(MaxShort + 1)
          /\ overlap \in 0..(chunk_size - 1)
          /\ \E t, u \in Strings(PageAlphabet, MaxShort) : pages = TwoPages(t, u)
       \/ /\ chunk_size = 20
          /\ overlap = 5
          /\ pages = OnePage(ScenarioText)
    /\ chunks = <<>> /\ chunk_id = 0 /\ pidx = 1 /\ text = <<>> /\ start = 0
    /\ windows = <<>>

SpecChunks == InitChunks /\ [][NextChunks]_vars

\* save_chunks(chunks, output_dir, B) called on its own
InitSave ==
    /\ caller = "direct" /\ pc = "sc_mkdir" /\ error = "none"
    /\ IdleMain /\ IdleChunks /\ IdleClean
    /\ \/ \E n \in 0..MaxN : sc_chunks = MkChunks(n) /\ chunks_per_file \in 1..MaxB
       \/ sc_chunks = MkChunks(250) /\ chunks_per_file = CHUNKS_PER_FILE
    /\ old_files = {} /\ num_files = 0 /\ i = 0
    /\ \E names \in SUBSET OldNames : disk = OldDir(names)
    /\ disk0 = disk

SpecSave == InitSave /\ [][NextSave]_vars

\* clean_text(raw) called on its own
InitClean ==
    /\ caller = "direct" /\ pc = "clean" /\ error = "none"
    /\ IdleMain /\ IdleChunks /\ IdleSave /\ IdleDisk
    /\ raw \in Strings(RawAlphabet, MaxRaw)
    /\ cleaned = <<>>

NextClean == CleanText

SpecClean == InitClean /\ [][NextClean]_vars

\* ---------------------------------------------------------------- claims
SeqSum(q, n) == LET f[k \in 0..n] == IF k = 0 THEN 0 ELSE f[k - 1] + q[k] IN f[n]

\* x occurs in y as a contiguous run of characters
IsSubstring(x, y) ==
    \E a \in 0..(Len(y) - Len(x)) : SubSeq(y, a + 1, a + Len(x)) = x

\* index x (0-based) of the current page's text lies in one of the windows taken
Covered(x) ==
    \E k \in 1..Len(windows) : windows[k].lo <= x /\ x < windows[k].lo + windows[k].len

\* the smallest n with n * B >= N
CeilDiv(N, B) == CHOOSE n \in 0..N : n * B >= N /\ (n = 0 \/ (n - 1) * B < N)

\* the batch files 0 .. n-1 of directory d, flattened in numeric order
ConcatFiles(d, n) ==
    LET f[k \in 0..n] == IF k = 0 THEN <<>> ELSE f[k - 1] \o d[BatchName(k - 1)].data
    IN f[n]

NewFiles(d) == {n \in DOMAIN d : d[n].run = "new"}

InScenario ==
    /\ pages = OnePage(ScenarioText)
    /\ chunk_size = 20
    /\ overlap = 5

\* C1: every iteration of the while loop of create_chunks strictly advances
\* start, for every chunk size S and overlap O with 0 <= O < S.
C1_StartAdvances == [][CcIter => start' > start]_vars

\* C2: the ids of all_chunks are unique and strictly increasing in emission
\* order: create_chunks numbers each PDF's chunks from 0, main shifts them by
\* the number of chunks accumulated before, and every chunk carries the file
\* name of its PDF.
C2_GlobalIds ==
    /\ pc = "main_renumber" => \A k \in 1..Len(chunks) : chunks[k].id = k - 1
    /\ Len(all_chunks) = SeqSum(counts, Len(counts))
    /\ \A a, b \in 1..Len(all_chunks) : a < b => all_chunks[a].id < all_chunks[b].id
    /\ \A f \in 1..Len(counts) : \A k \in 1..counts[f] :
          LET c == all_chunks[SeqSum(counts, f - 1) + k]
          IN /\ c.id = SeqSum(counts, f - 1) + (k - 1)
             /\ c.source = pdf_files[f].name

C2_Witness ==
    /\ counts = <<3, 2>>
    /\ all_chunks[4].id = 3 /\ all_chunks[5].id = 4
    /\ all_chunks[3].source = "a.pdf" /\ all_chunks[4].source = "b.pdf"

\* C3: save_chunks writes exactly ceil(N/B) files chunks_0 .. chunks_{n-1} and
\* returns that number; every file holds at most B chunks, every file but the
\* last exactly B, and the files flattened in numeric order are the chunk
\* sequence (250 chunks, B = 100: files of 100, 100 and 50, result 3).
C3_Batches ==
    (pc = "done") =>
        LET N == Len(sc_chunks)
            B == chunks_per_file
            n == CeilDiv(N, B)
        IN /\ num_files = n
           /\ NewFiles(disk) = {BatchName(k) : k \in 0..(n - 1)}
           /\ \A k \in 0..(n - 1) :
                 /\ disk[BatchName(k)].whole
                 /\ Len(disk[BatchName(k)].data) <= B
                 /\ k < n - 1 => Len(disk[BatchName(k)].data) = B
           /\ ConcatFiles(disk, n) = sc_chunks
           /\ (N = 250 /\ B = 100) =>
                 /\ num_files = 3
                 /\ Len(disk[BatchName(0)].data) = 100
                 /\ Len(disk[BatchName(1)].data) = 100
                 /\ Len(disk[BatchName(2)].data) = 50

C3_Witness ==
    /\ pc = "done"
    /\ Len(sc_chunks) = 250 /\ chunks_per_file = 100
    /\ num_files = 3
    /\ BatchName(2) \in DOMAIN disk /\ disk[BatchName(2)].run = "new"

\* C4: every chunk create_chunks emits has a non-empty text of at most S
\* characters that is a contiguous substring of the cleaned text of the page
\* its page field names.
C4_ChunkText ==
    \A k \in 1..Len(chunks) :
        /\ chunks[k].text # <<>>
        /\ Len(chunks[k].text) <= chunk_size
        /\ \E p \in 1..Len(pages) :
              /\ pages[p].page = chunks[k].page
              /\ IsSubstring(chunks[k].text, clean_text(pages[p].text))

C4_Witness ==
    /\ pc = "done"
    /\ Len(pages) = 2
    /\ \E k \in 1..Len(chunks) :
          /\ chunks[k].page = 2
          /\ chunks[k].text # clean_text(pages[2].text)
          /\ chunks[k].text # clean_text(pages[1].text)

\* C5: after a save_chunks call that completes, the files named chunks_*.json
\* in the output directory are exactly chunks_0 .. chunks_{n-1} written by
\* this call; no batch file of an earlier run survives.
C5_FullOverwrite ==
    (pc = "done") =>
        /\ {n \in DOMAIN disk : GlobMatch(n)} = {BatchName(k) : k \in 0..(num_files - 1)}
        /\ \A n \in DOMAIN disk : GlobMatch(n) => disk[n].run = "new"

C5_Witness ==
    /\ pc = "done"
    /\ {BatchName(0), BatchName(2), OldBatchName} \subseteq DOMAIN disk0
    /\ num_files = 0

\* C6: clean_text collapses two or more blank lines between two blocks of text
\* to exactly one blank line.
C6_OneBlankLine ==
    (pc = "done") =>
        \A p \in 1..Len(raw) : \A q \in (p + 3)..Len(raw) :
            (/\ \A k \in 1..p : raw[k] \notin Whitespace \cup Control
             /\ \A k \in (p + 1)..q : raw[k] = "\n"
             /\ q < Len(raw)
             /\ \A k \in (q + 1)..Len(raw) : raw[k] \notin Whitespace \cup Control)
            => cleaned = SubSeq(raw, 1, p) \o <<"\n", "\n">> \o SubSeq(raw, q + 1, Len(raw))

\* C7 as stated: on "Sentence one. Sentence two. Sentence three." with S = 20
\* and O = 5 the first chunk is "Sentence one.", the first window is truncated
\* at 14 and the second window starts at 9.
C7_AsStated ==
    (InScenario /\ Len(windows) >= 2) =>
        /\ chunks[1].text = SubSeq(ScenarioText, 1, 13)
        /\ windows[1].end = 14
        /\ windows[2].start = 9

\* C7 as amended: on "Sentence one. Sentence two. Sentence three." with S = 20
\* and O = 5 the first chunk is "Sentence one." (13 characters), the first
\* window is truncated at 13 (break point 12 > 10) and the second window
\* starts at 13 - 5 = 8.
C7_Scenario ==
    (InScenario /\ Len(windows) >= 2) =>
        /\ chunks[1].text = SubSeq(ScenarioText, 1, 13)
        /\ windows[1].start = 0
        /\ windows[1].end = 13
        /\ windows[2].start = 8

C7_Witness == InScenario /\ Len(windows) = 2 /\ Len(chunks) = 2

\* C8: when the write of batch file k fails in save_chunks the run aborts: no
\* batch file with an index above k and no metadata.json is written by this
\* run, the batch files 0 .. k-1 of this run stay on disk, and the batch files
\* of the earlier run are gone.
C8_WriteFailure ==
    (error = "write") =>
        /\ pc = "aborted"
        /\ \A n \in NewFiles(disk) : n \in {BatchName(k) : k \in 0..i}
        /\ MetadataName \in DOMAIN disk =>
              /\ MetadataName \in DOMAIN disk0
              /\ disk[MetadataName] = disk0[MetadataName]
        /\ \A k \in 0..(i - 1) :
              /\ BatchName(k) \in DOMAIN disk
              /\ disk[BatchName(k)] =
                    [run |-> "new", whole |-> TRUE, data |-> Batch(sc_chunks, k, chunks_per_file)]
        /\ \A n \in DOMAIN disk : GlobMatch(n) => disk[n].run = "new"

C8_Witness ==
    /\ error = "write"
    /\ i = 1
    /\ BatchName(0) \in DOMAIN disk /\ Len(disk[BatchName(0)].data) = CHUNKS_PER_FILE
    /\ {BatchName(1), BatchName(2), MetadataName} \subseteq DOMAIN disk0
    /\ BatchName(2) \notin DOMAIN disk

\* C9: the first window of a page starts at offset 0 and each later window
\* starts exactly O characters before the effective end of the window before
\* it; at the start of every iteration every index of the page text below the
\* previous window's end lies in an earlier window; when the loop ends every
\* non-whitespace character of the page text is in an emitted chunk.
C9_NoGap ==
    (pc = "cc_loop") =>
        /\ \A k \in 1..Len(windows) :
              windows[k].lo = IF k = 1 THEN 0 ELSE windows[k - 1].end - overlap
        /\ Len(windows) > 0 =>
              \A x \in 0..(Len(text) - 1) : x < windows[Len(windows)].end => Covered(x)
        /\ ~(start < Len(text)) =>
              \A x \in 0..(Len(text) - 1) : text[x + 1] \notin Whitespace => Covered(x)

\* C10: main deletes and writes nothing in the output directory before every
\* input PDF is extracted and chunked; when no PDF is found or an extraction
\* fails the directory is as it was before the run.
C10_OutputUntouched ==
    (\/ pc \in {"main_glob", "main_extract", "cc_page", "cc_loop", "main_renumber", "exit1"}
     \/ error = "extract")
    => disk = disk0

C10_Witness ==
    /\ error = "extract"
    /\ pc = "aborted"
    /\ fidx = 2
    /\ Len(all_chunks) > 0
    /\ {BatchName(0), MetadataName} \subseteq DOMAIN disk0

====
